---- MODULE Spec2Model ----
(***************************************************************************)
(* Model of the cube renderer of three-demo: shader template composition   *)
(* (src/cube.js createShaderWithCustomizations), program/buffer set-up     *)
(* (initWebGL), the per-frame draw (renderWebGLCube) and the host loop     *)
(* (src/main.js animate / resize).                                         *)
(*                                                                         *)
(* Shader text is a sequence of tokens.  The six marker comments are one   *)
(* token each ("BU" = /* BEGIN_ADDITIONAL_UNIFORMS */, "EU" its END, "BF", *)
(* "EF", "BC", "EC"), "nl" and "sp" are white space, "$", "&", "`", "'"    *)
(* are themselves, and any other token is a stretch of GLSL text without   *)
(* markers, dollars or white space at its ends.                            *)
(***************************************************************************)
EXTENDS Integers, Sequences, FiniteSets, TLC

\* ---------------------------------------------------------------- bounds
MaxLen == 2        \* longest customization string, in tokens
MaxFrames == 3     \* animation frames followed before the loop is cut off

\* ------------------------------------------------------- text primitives
IsWhiteSpace(t) == t \in {"nl", "sp"}

RECURSIVE TrimStart(_)
TrimStart(s) ==
    IF s = <<>> THEN <<>>
    ELSE IF IsWhiteSpace(Head(s)) THEN TrimStart(Tail(s)) ELSE s

RECURSIVE TrimEnd(_)
TrimEnd(s) ==
    IF s = <<>> THEN <<>>
    ELSE IF IsWhiteSpace(s[Len(s)]) THEN TrimEnd(SubSeq(s, 1, Len(s) - 1)) ELSE s

\* String.prototype.trim
Trim(s) == TrimEnd(TrimStart(s))

\* number of occurrences of token t in s
RECURSIVE Count(_, _)
Count(s, t) ==
    IF s = <<>> THEN 0
    ELSE (IF Head(s) = t THEN 1 ELSE 0) + Count(Tail(s), t)

\* The regular expression  BEGIN[\s\S]*?END : the leftmost begin marker that
\* has an end marker after it, up to the nearest such end marker.
RegexMatch(src, b, e) ==
    LET starts == {i \in 1..Len(src) :
                      src[i] = b /\ \E j \in (i+1)..Len(src) : src[j] = e}
    IN  IF starts = {} THEN [found |-> FALSE, from |-> 0, to |-> 0]
        ELSE LET i == CHOOSE x \in starts : \A y \in starts : x <= y
                 ends == {j \in (i+1)..Len(src) : src[j] = e}
                 j == CHOOSE x \in ends : \A y \in ends : x <= y
             IN  [found |-> TRUE, from |-> i, to |-> j]

\* Expansion of a replacement string by String.prototype.replace:
\* $$ is a dollar, $& the match, $` the text before it, $' the text after it
\* (the patterns have no capture groups, so $1.. stay as written).
RECURSIVE ExpandReplacement(_, _, _, _)
ExpandReplacement(repl, matched, before, after) ==
    IF repl = <<>> THEN <<>>
    ELSE IF Head(repl) = "$" /\ Len(repl) >= 2 /\ repl[2] \in {"$", "&", "`", "'"}
         THEN (CASE repl[2] = "$" -> <<"$">>
                 [] repl[2] = "&" -> matched
                 [] repl[2] = "`" -> before
                 [] repl[2] = "'" -> after)
              \o ExpandReplacement(SubSeq(repl, 3, Len(repl)), matched, before, after)
         ELSE <<Head(repl)>> \o ExpandReplacement(Tail(repl), matched, before, after)

\* customizedSource.replace(/BEGIN[\s\S]*?END/, section): first match only,
\* the source unchanged when nothing matches.
StringReplace(src, b, e, repl) ==
    LET m == RegexMatch(src, b, e)
    IN  IF ~m.found THEN src
        ELSE LET before == SubSeq(src, 1, m.from - 1)
                 matched == SubSeq(src, m.from, m.to)
                 after == SubSeq(src, m.to + 1, Len(src))
             IN  before \o ExpandReplacement(repl, matched, before, after) \o after

\* ------------------------------------------------------ shader templates
\* const fragmentShaderSource
fragmentShaderSource ==
    <<"head", "nl", "nl",
      "BU", "nl", "EU", "nl", "nl",
      "BF", "nl", "EF", "nl", "nl",
      "BC", "nl", "applyColorCorrection", "nl", "EC", "nl", "nl",
      "main">>

\* const vertexShaderSource
vertexShaderSource == <<"vhead", "nl", "vmain", "nl">>

\* a customization field: not given (undefined) or a string
Undefined == [given |-> FALSE, text |-> <<>>]
Given(s) == [given |-> TRUE, text |-> s]

\* `/* BEGIN_X */\n${field.trim()}\n/* END_X */`
Section(b, field, e) == <<b, "nl">> \o Trim(field.text) \o <<"nl", e>>

ReplaceZone(src, b, field, e) ==
    IF field.given THEN StringReplace(src, b, e, Section(b, field, e)) ELSE src

\* the three replacements of createShaderWithCustomizations, in order
CustomizedSource(source, c) ==
    LET s1 == ReplaceZone(source, "BU", c.additionalUniforms, "EU")
        s2 == ReplaceZone(s1, "BF", c.additionalFunctions, "EF")
        s3 == ReplaceZone(s2, "BC", c.colorCorrectionFunction, "EC")
    IN  s3

\* ------------------------------------------------------------ GL context
\* The rendering context is a record: the objects it holds, its binding and
\* pipeline state, and `log`, the calls made by the handler that is running.
NULL == 0          \* the null handle / null state
EXTERNAL == 99     \* a program or buffer of the scene or splat renderer

Call(op, args) == [op |-> op, args |-> args]

NewContext ==
    [nextId |-> 1,
     shaders |-> {}, deletedShaders |-> {},
     programs |-> {}, deletedPrograms |-> {}, linked |-> {},
     buffers |-> {}, data |-> <<>>,
     program |-> NULL, arrayBuffer |-> NULL, elementArrayBuffer |-> NULL,
     caps |-> {}, depthFunc |-> "LESS",
     attribs |-> {}, uniforms |-> {},
     viewport |-> <<0, 0>>,
     log |-> <<>>]

Logged(g, op, args) == [g EXCEPT !.log = Append(@, Call(op, args))]

\* behaviour of the context's compiler and linker for this page load
Contexts ==
    [vsCompiles : BOOLEAN, fsCompiles : BOOLEAN, links : BOOLEAN,
     nullAttach : {"TypeError", "INVALID_VALUE"}]

\* result of a function call: the context afterwards, the value returned,
\* and whether an exception left the function instead
Result(g, ret, threw) == [g |-> g, ret |-> ret, threw |-> threw]

\* `const x = v; rest(x)`: v is computed once and rest continues with it
Bind(v, rest(_)) == CHOOSE r \in {rest(x) : x \in {v}} : TRUE

\* function createShader(gl, type, source)
createShader(g, cx, type, source) ==
    LET shader == g.nextId
        ok == IF type = "VERTEX_SHADER" THEN cx.vsCompiles ELSE cx.fsCompiles
    IN  Bind(Logged(Logged(Logged([g EXCEPT !.nextId = @ + 1,
                                            !.shaders = @ \cup {shader}],
                                  "createShader", <<type, shader>>),
                           "shaderSource", <<shader>>),
                    "compileShader", <<shader>>),
             LAMBDA g3 :
                IF ~ok
                THEN Result(Logged([g3 EXCEPT !.deletedShaders = @ \cup {shader}],
                                   "deleteShader", <<shader>>),
                            NULL, FALSE)
                ELSE Result(g3, shader, FALSE))

\* function createShaderWithCustomizations(gl, type, source, customizations)
createShaderWithCustomizations(g, cx, type, source, c) ==
    createShader(g, cx, type, CustomizedSource(source, c))

\* gl.attachShader(program, shader): a null shader is a TypeError where the
\* binding follows WebIDL and an INVALID_VALUE error elsewhere
attachShader(r, cx, program, shader) ==
    IF r.threw THEN r
    ELSE LET g1 == Logged(r.g, "attachShader", <<program, shader>>)
         IN  IF shader = NULL
             THEN Result(g1, NULL, cx.nullAttach = "TypeError")
             ELSE Result(g1, NULL, FALSE)

\* function createProgram(gl, vertexShader, fragmentShader)
createProgram(g, cx, vertexShader, fragmentShader) ==
    LET program == g.nextId
        ok == cx.links /\ vertexShader # NULL /\ fragmentShader # NULL
    IN  Bind(Result(Logged([g EXCEPT !.nextId = @ + 1, !.programs = @ \cup {program}],
                           "createProgram", <<program>>),
                    NULL, FALSE),
             LAMBDA r1 :
        Bind(attachShader(r1, cx, program, vertexShader), LAMBDA r2 :
        Bind(attachShader(r2, cx, program, fragmentShader), LAMBDA r3 :
            IF r3.threw THEN r3
            ELSE Bind(Logged(r3.g, "linkProgram", <<program>>), LAMBDA g4 :
                    IF ~ok
                    THEN Result(Logged([g4 EXCEPT !.deletedPrograms = @ \cup {program}],
                                       "deleteProgram", <<program>>),
                                NULL, FALSE)
                    ELSE Result([g4 EXCEPT !.linked = @ \cup {program}],
                                program, FALSE)))))

\* contents of a buffer object: the typed array that was uploaded
NoData == [type |-> "none", elems |-> <<>>]
TypedArray(type, elems) == [type |-> type, elems |-> elems]

\* gl.createBuffer()
createBuffer(g) ==
    Logged([g EXCEPT !.nextId = @ + 1, !.buffers = @ \cup {g.nextId},
                     !.data = @ \o <<[buffer |-> g.nextId, content |-> NoData]>>],
           "createBuffer", <<g.nextId>>)

\* gl.bindBuffer(target, buffer)
bindBuffer(g, target, buffer) ==
    Logged(IF target = "ARRAY_BUFFER" THEN [g EXCEPT !.arrayBuffer = buffer]
           ELSE [g EXCEPT !.elementArrayBuffer = buffer],
           "bindBuffer", <<target, buffer>>)

\* gl.bufferData(target, data, gl.STATIC_DRAW): fills the bound buffer
bufferData(g, target, content) ==
    LET b == IF target = "ARRAY_BUFFER" THEN g.arrayBuffer ELSE g.elementArrayBuffer
    IN  Logged([g EXCEPT !.data =
                   [n \in DOMAIN @ |->
                       IF @[n].buffer = b THEN [buffer |-> b, content |-> content]
                       ELSE @[n]]],
               "bufferData", <<target, content, "STATIC_DRAW">>)

\* ------------------------------------------------------- cube geometry
\* const positions: 8 vertices x 3 floats, in units of 0.5
positions ==
    <<-1, -1,  1,    1, -1,  1,    1,  1,  1,   -1,  1,  1,
      -1, -1, -1,   -1,  1, -1,    1,  1, -1,    1, -1, -1>>

\* const colors: 24 entries x 4 floats (RGBA)
colors ==
    <<1, 0, 0, 1,   1, 0, 0, 1,   1, 0, 0, 1,   1, 0, 0, 1,
      0, 1, 0, 1,   0, 1, 0, 1,   0, 1, 0, 1,   0, 1, 0, 1,
      0, 0, 1, 1,   0, 0, 1, 1,   0, 0, 1, 1,   0, 0, 1, 1,
      1, 1, 0, 1,   1, 1, 0, 1,   1, 1, 0, 1,   1, 1, 0, 1,
      1, 0, 1, 1,   1, 0, 1, 1,   1, 0, 1, 1,   1, 0, 1, 1,
      0, 1, 1, 1,   0, 1, 1, 1,   0, 1, 1, 1,   0, 1, 1, 1>>

\* const indices: 12 triangles
indices ==
    <<0, 1, 2,   0, 2, 3,
      4, 5, 6,   4, 6, 7,
      0, 4, 7,   0, 7, 1,
      2, 6, 5,   2, 5, 3,
      0, 3, 5,   0, 5, 4,
      1, 7, 6,   1, 6, 2>>

\* ------------------------------------------------------------ initWebGL
\* gl.getAttribLocation / gl.getUniformLocation: the location of a name in
\* a linked program
Location(program, name) == <<program, name>>

\* the value null where a state record is expected
NoLocation == <<NULL, "">>

NullState ==
    [null |-> TRUE, program |-> NULL,
     positionLocation |-> NoLocation, colorLocation |-> NoLocation,
     modelViewMatrixLocation |-> NoLocation, projectionMatrixLocation |-> NoLocation,
     positionBuffer |-> NULL, colorBuffer |-> NULL, indexBuffer |-> NULL,
     indicesLength |-> 0,
     timeLocation |-> NoLocation, colorModifierLocation |-> NoLocation]

\* A slip the guard `if (!program) return null` protects against.
ProgramMissingNever(program) == FALSE

\* `!program` in initWebGL
ProgramMissing(program) == program = NULL

\* the buffer set-up of initWebGL and the record it returns
initBuffers(g, program) ==
    LET positionBuffer == g.nextId
        colorBuffer == g.nextId + 1
        indexBuffer == g.nextId + 2
    IN  Bind(createBuffer(g), LAMBDA g1 :
        Bind(createBuffer(g1), LAMBDA g2 :
        Bind(createBuffer(g2), LAMBDA g3 :
        Bind(bindBuffer(g3, "ELEMENT_ARRAY_BUFFER", indexBuffer), LAMBDA g4 :
        Bind(bufferData(g4, "ELEMENT_ARRAY_BUFFER",
                        TypedArray("Uint16Array", indices)), LAMBDA g5 :
        Bind(bindBuffer(g5, "ARRAY_BUFFER", positionBuffer), LAMBDA g6 :
        Bind(bufferData(g6, "ARRAY_BUFFER",
                        TypedArray("Float32Array", positions)), LAMBDA g7 :
        Bind(bindBuffer(g7, "ARRAY_BUFFER", colorBuffer), LAMBDA g8 :
        Bind(bufferData(g8, "ARRAY_BUFFER",
                        TypedArray("Float32Array", colors)), LAMBDA g9 :
            Result(g9,
                   [null |-> FALSE,
                    program |-> program,
                    positionLocation |-> Location(program, "aPosition"),
                    colorLocation |-> Location(program, "aColor"),
                    modelViewMatrixLocation |-> Location(program, "uModelViewMatrix"),
                    projectionMatrixLocation |-> Location(program, "uProjectionMatrix"),
                    positionBuffer |-> positionBuffer,
                    colorBuffer |-> colorBuffer,
                    indexBuffer |-> indexBuffer,
                    indicesLength |-> Len(indices)],
                   FALSE))))))))))

\* export function initWebGL(gl, camera, shaderCustomizations = {})
initWebGL(g, cx, source, c) ==
    Bind(createShader(g, cx, "VERTEX_SHADER", vertexShaderSource), LAMBDA rv :
    Bind(createShaderWithCustomizations(rv.g, cx, "FRAGMENT_SHADER", source, c),
         LAMBDA rf :
    Bind(createProgram(rf.g, cx, rv.ret, rf.ret), LAMBDA rp :
        IF rp.threw THEN Result(rp.g, NullState, TRUE)
        ELSE IF ProgramMissing(rp.ret) THEN Result(rp.g, NullState, FALSE)
        ELSE initBuffers(rp.g, rp.ret))))

\* ------------------------------------------------------ renderWebGLCube
Cells == 0..15

\* Storing a number in a Float32Array rounds it to the nearest 32-bit float
\* (24-bit significand, ties to even).  Numbers are integers here.
RECURSIVE Ulp(_)
Ulp(x) == IF x < 16777216 THEN 1 ELSE 2 * Ulp(x \div 2)

Fround(x) ==
    LET a == IF x < 0 THEN -x ELSE x
        u == Ulp(a)
        q == a \div u
        r == a % u
        m == IF 2 * r < u THEN q * u
             ELSE IF 2 * r > u THEN (q + 1) * u
             ELSE IF q % 2 = 0 THEN q * u ELSE (q + 1) * u
    IN  IF x < 0 THEN -m ELSE m

\* new Float32Array(...) filled from the numbers of f
Float32Array(f) == [n \in DOMAIN f |-> Fround(f[n])]

\* const modelMatrix: zero-filled, then cells 0, 5, 10, 15 set to 1 and
\* cells 12, 13, 14 set to 0
modelMatrix ==
    Float32Array([n \in Cells |-> IF n \in {0, 5, 10, 15} THEN 1 ELSE 0])

\* A slip: the camera matrix read column by column.
MatrixProductTransposed(a, b) ==
    [n \in Cells |->
        LET i == n \div 4
            j == n % 4
        IN  a[0 * 4 + i] * b[0 * 4 + j] + a[1 * 4 + i] * b[1 * 4 + j]
          + a[2 * 4 + i] * b[2 * 4 + j] + a[3 * 4 + i] * b[3 * 4 + j]]

\* the triple loop of renderWebGLCube: cell i*4+j is the sum over k of
\* a[i*4+k] * b[k*4+j]
MatrixProduct(a, b) ==
    [n \in Cells |->
        LET i == n \div 4
            j == n % 4
        IN  a[i * 4 + 0] * b[0 * 4 + j] + a[i * 4 + 1] * b[1 * 4 + j]
          + a[i * 4 + 2] * b[2 * 4 + j] + a[i * 4 + 3] * b[3 * 4 + j]]

\* gl.useProgram(program)
useProgram(g, program) ==
    Logged([g EXCEPT !.program = program], "useProgram", <<program>>)

\* gl.enable(cap)
enable(g, cap) == Logged([g EXCEPT !.caps = @ \cup {cap}], "enable", <<cap>>)

\* gl.depthFunc(func)
depthFunc(g, func) == Logged([g EXCEPT !.depthFunc = func], "depthFunc", <<func>>)

\* gl.enableVertexAttribArray(location); gl.vertexAttribPointer(location,
\* size, gl.FLOAT, false, 0, 0): the attribute reads the bound array buffer
vertexAttrib(g, location, size) ==
    LET g1 == Logged(g, "enableVertexAttribArray", <<location>>)
        entry == [location |-> location, buffer |-> g.arrayBuffer, size |-> size,
                  type |-> "FLOAT", stride |-> 0, offset |-> 0]
    IN  Logged([g1 EXCEPT !.attribs =
                    {a \in @ : a.location # location} \cup {entry}],
               "vertexAttribPointer", <<location, size, "FLOAT", FALSE, 0, 0>>)

\* gl.uniform*(location, value): sets the uniform of the program in use;
\* values reach the GPU as 32-bit floats
uniform(g, op, location, value) ==
    LET entry == [location |-> location, value |-> Float32Array(value)]
    IN  Logged(IF location[1] = g.program /\ location[1] # NULL
               THEN [g EXCEPT !.uniforms =
                        {u \in @ : u.location # location} \cup {entry}]
               ELSE g,
               op, <<location, Float32Array(value)>>)

\* gl.drawElements(mode, count, type, offset)
drawElements(g, mode, count, type, offset) ==
    Logged(g, "drawElements", <<mode, count, type, offset>>)

\* A slip: the index buffer uploaded again on every frame.
bindIndexBufferAndUpload(g, indexBuffer) ==
    Bind(bindBuffer(g, "ELEMENT_ARRAY_BUFFER", indexBuffer), LAMBDA g1 :
        bufferData(g1, "ELEMENT_ARRAY_BUFFER", TypedArray("Uint16Array", indices)))

\* gl.bindBuffer(gl.ELEMENT_ARRAY_BUFFER, indexBuffer) in renderWebGLCube
bindIndexBuffer(g, indexBuffer) == bindBuffer(g, "ELEMENT_ARRAY_BUFFER", indexBuffer)

\* A slip: the draw issued once per triangle list half.
drawTwice(g, state) ==
    drawElements(drawElements(g, "TRIANGLES", 18, "UNSIGNED_SHORT", 0),
                 "TRIANGLES", 18, "UNSIGNED_SHORT", 36)

\* gl.drawElements(gl.TRIANGLES, indicesLength, gl.UNSIGNED_SHORT, 0)
draw(g, state) ==
    drawElements(g, "TRIANGLES", state.indicesLength, "UNSIGNED_SHORT", 0)

\* export function renderWebGLCube(state, camera)
renderWebGLCube(g, state, camera) ==
    LET cameraMatrix == camera.matrixWorldInverse
        cameraProjection == camera.projectionMatrix
    IN  Bind(useProgram(g, state.program), LAMBDA g1 :
        Bind(enable(g1, "DEPTH_TEST"), LAMBDA g2 :
        Bind(depthFunc(g2, "LESS"), LAMBDA g3 :
        Bind(enable(g3, "CULL_FACE"), LAMBDA g4 :
        Bind(bindBuffer(g4, "ARRAY_BUFFER", state.positionBuffer), LAMBDA g5 :
        Bind(vertexAttrib(g5, state.positionLocation, 3), LAMBDA g6 :
        Bind(bindBuffer(g6, "ARRAY_BUFFER", state.colorBuffer), LAMBDA g7 :
        Bind(vertexAttrib(g7, state.colorLocation, 4), LAMBDA g8 :
        Bind(bindIndexBuffer(g8, state.indexBuffer), LAMBDA g9 :
        Bind(Float32Array(MatrixProduct(cameraMatrix, modelMatrix)),
             LAMBDA modelViewMatrix :
        Bind(uniform(g9, "uniformMatrix4fv", state.modelViewMatrixLocation,
                     modelViewMatrix), LAMBDA g10 :
        Bind(uniform(g10, "uniformMatrix4fv", state.projectionMatrixLocation,
                     cameraProjection), LAMBDA g11 :
            draw(g11, state)))))))))))))

\* ------------------------------------------------------------------ host
VARIABLES
    customizations,   \* the shaderCustomizations argument
    fragSource,       \* the fragment source handed to the compositor
    ctx,              \* how this context's compiler and linker behave
    gl,               \* the rendering context
    pc,               \* where the page's script is
    cubeState,        \* const cubeState of main.js
    camera,           \* the THREE.PerspectiveCamera
    frame,            \* frames rendered so far
    frameCalls,       \* what the last animate() called, in order
    buildLog,         \* the context calls of initWebGL
    renderLog,        \* the context calls of the last renderWebGLCube
    customizedSource, \* the source the fragment shader was compiled from
    shader            \* what createShaderWithCustomizations returned

vars == <<customizations, fragSource, ctx, gl, pc, cubeState, camera, frame,
          frameCalls, buildLog, renderLog, customizedSource, shader>>

\* window.innerWidth x window.innerHeight
WindowSizes == {<<800, 600>>, <<600, 800>>, <<1000, 500>>}

\* camera.updateProjectionMatrix() of a PerspectiveCamera(50, aspect, 0.1,
\* 1000), in thousandths
ProjectionMatrix(aspect) ==
    [n \in Cells |->
        CASE n = 0 -> (2144 * aspect[2]) \div aspect[1]
          [] n = 5 -> 2144
          [] n = 10 -> -1000
          [] n = 11 -> -1000
          [] n = 14 -> -200
          [] OTHER -> 0]

\* a number that is not a 32-bit float (2^24 + 1)
NotFloat32 == 16777216 + 1

BaseView == [n \in Cells |-> n + 1]

\* the world-inverse matrices the camera is given: all cells distinct, a
\* rotation with negative cells, and two with a cell that is not a 32-bit
\* float
CameraMatrices ==
    {BaseView,
     [n \in Cells |-> IF n % 5 = 0 THEN 1 ELSE IF n % 2 = 0 THEN -n ELSE n],
     [BaseView EXCEPT ![12] = NotFloat32],
     [BaseView EXCEPT ![3] = -NotFloat32, ![9] = NotFloat32 + 2]}

NewCamera ==
    [matrixWorldInverse |-> BaseView,
     aspect |-> <<1, 1>>,
     projectionMatrix |-> ProjectionMatrix(<<1, 1>>)]

\* renderer.render(scene, camera) and splatter.render(camera) use the same
\* context and leave their own program and buffers bound
externalRender(g) ==
    [g EXCEPT !.program = EXTERNAL, !.arrayBuffer = EXTERNAL,
              !.elementArrayBuffer = EXTERNAL, !.caps = {}]

\* strings over an alphabet, up to a length
RECURSIVE Strings(_, _)
Strings(alphabet, n) ==
    IF n = 0 THEN {<<>>}
    ELSE LET shorter == Strings(alphabet, n - 1)
         IN  shorter \cup {Append(s, t) : s \in shorter, t \in alphabet}

Fields(strings) == {Undefined} \cup {Given(s) : s \in strings}

Customizations(strings) ==
    [additionalUniforms : Fields(strings),
     additionalFunctions : Fields(strings),
     colorCorrectionFunction : Fields(strings)]

\* what the page passes to initWebGL for a field, when it passes one
PageStrings == {<<"nl", "sp", "glsl", "nl">>}

Init ==
    /\ customizations \in Customizations(PageStrings)
    /\ fragSource = fragmentShaderSource
    /\ ctx \in Contexts
    /\ gl = NewContext
    /\ pc = "load"
    /\ cubeState = NullState
    /\ camera = NewCamera
    /\ frame = 0
    /\ frameCalls = <<>>
    /\ buildLog = <<>>
    /\ renderLog = <<>>
    /\ customizedSource = <<>>
    /\ shader = NULL

\* main.js: const cubeState = initWebGL(context, camera, shaderCustomizations)
\* and the uniform set-up that follows it
Load ==
    /\ pc = "load"
    /\ \E r \in {initWebGL([gl EXCEPT !.log = <<>>], ctx, fragSource, customizations)} :
          LET st == r.ret
              timeLocation == Location(st.program, "uTime")
              colorModifierLocation == Location(st.program, "uColorModifier")
          IN  /\ buildLog' = r.g.log
              /\ IF r.threw
                 THEN /\ pc' = "crashed"
                      /\ cubeState' = NullState
                      /\ gl' = r.g
                 ELSE /\ pc' = "resize"
                      /\ IF st.null
                         THEN /\ cubeState' = st
                              /\ gl' = r.g
                         ELSE /\ cubeState' =
                                   st @@ [timeLocation |-> timeLocation,
                                          colorModifierLocation |-> colorModifierLocation]
                              /\ \E g1 \in {useProgram(r.g, st.program)} :
                                    gl' = uniform(g1, "uniform3f",
                                                  colorModifierLocation, <<12, 8, 10>>)
    /\ customizedSource' = CustomizedSource(fragSource, customizations)
    /\ UNCHANGED <<customizations, fragSource, ctx, camera, frame, frameCalls,
                   renderLog, shader>>

\* A slip: the guard of the cube render dropped.
CubePresentAlways(state) == TRUE

\* `if (cubeState)` in animate and resize
CubePresent(state) == ~state.null

\* function resize(): called once at start-up and then on every resize event
Resize ==
    /\ pc \in {"resize", "running"}
    /\ \E size \in WindowSizes :
          /\ camera' = [camera EXCEPT !.aspect = size,
                                      !.projectionMatrix = ProjectionMatrix(size)]
          /\ LET g0 == [gl EXCEPT !.log = <<>>]
                 g1 == Logged([g0 EXCEPT !.viewport = size],
                              "renderer.setSize", size)
             IN  gl' = IF CubePresent(cubeState)
                       THEN Logged([g1 EXCEPT !.viewport = size],
                                   "viewport", <<0, 0, size[1], size[2]>>)
                       ELSE g1
    /\ pc' = IF pc = "resize" THEN "animate" ELSE pc
    /\ UNCHANGED <<customizations, fragSource, ctx, cubeState, frame, frameCalls,
                   buildLog, renderLog, customizedSource, shader>>

\* function animate(): called once at start-up and then from
\* requestAnimationFrame (the second host page has the same function)
Animate ==
    /\ pc \in {"animate", "running"}
    /\ frame < MaxFrames
    /\ \E g0 \in {externalRender([gl EXCEPT !.log = <<>>])} :
          IF CubePresent(cubeState)
          THEN \E g1 \in {useProgram(g0, cubeState.program)} :
               \E g2 \in {uniform(g1, "uniform1f", cubeState.timeLocation,
                                  <<frame + 1>>)} :
               \E g3 \in {renderWebGLCube([g2 EXCEPT !.log = <<>>], cubeState, camera)} :
                  /\ renderLog' = g3.log
                  /\ gl' = externalRender([g3 EXCEPT !.log = g2.log \o g3.log])
                  /\ frameCalls' = <<"renderer.render", "renderWebGLCube",
                                     "splatter.render", "requestAnimationFrame">>
          ELSE /\ renderLog' = renderLog
               /\ gl' = externalRender(g0)
               /\ frameCalls' = <<"renderer.render", "splatter.render",
                                  "requestAnimationFrame">>
    /\ frame' = frame + 1
    /\ pc' = "running"
    /\ UNCHANGED <<customizations, fragSource, ctx, cubeState, camera, buildLog,
                   customizedSource, shader>>

\* OrbitControls: the user moves the camera between frames
CameraMove ==
    /\ pc = "running"
    /\ \E m \in CameraMatrices :
          /\ m # camera.matrixWorldInverse
          /\ camera' = [camera EXCEPT !.matrixWorldInverse = m]
    /\ UNCHANGED <<customizations, fragSource, ctx, gl, pc, cubeState, frame,
                   frameCalls, buildLog, renderLog, customizedSource, shader>>

Next == Load \/ Resize \/ Animate \/ CameraMove

Spec == Init /\ [][Next]_vars

\* ------------------------------------------------- the compositor alone
\* createShaderWithCustomizations called on its own: the template or a
\* template whose markers were edited, one field taken from all short
\* strings and the other two absent, empty or plain GLSL.
ComposeAlphabet == {"glsl", "nl", "$", "&", "'", "BF", "BC", "EC"}

RichFields == Fields(Strings(ComposeAlphabet, MaxLen))

PlainFields == {Undefined, Given(<<>>), Given(<<"glsl">>)}

ComposeCustomizations ==
    [additionalUniforms : RichFields, additionalFunctions : PlainFields,
     colorCorrectionFunction : PlainFields]
    \cup
    [additionalUniforms : PlainFields, additionalFunctions : RichFields,
     colorCorrectionFunction : PlainFields]
    \cup
    [additionalUniforms : PlainFields, additionalFunctions : PlainFields,
     colorCorrectionFunction : RichFields]

\* the template without its uniforms zone
SourceWithoutUniformsZone ==
    <<"head", "nl", "nl",
      "BF", "nl", "EF", "nl", "nl",
      "BC", "nl", "applyColorCorrection", "nl", "EC", "nl", "nl",
      "main">>

\* the template with its colour-correction zone written twice
SourceWithTwoCorrectionZones ==
    <<"head", "nl", "nl",
      "BU", "nl", "EU", "nl", "nl",
      "BF", "nl", "EF", "nl", "nl",
      "BC", "nl", "applyColorCorrection", "nl", "EC", "nl", "nl",
      "BC", "nl", "applyColorCorrection", "nl", "EC", "nl", "nl",
      "main">>

Sources ==
    {fragmentShaderSource, SourceWithoutUniformsZone, SourceWithTwoCorrectionZones}

InitCompose ==
    /\ customizations \in ComposeCustomizations
    /\ fragSource \in Sources
    /\ ctx \in {cx \in Contexts : cx.vsCompiles /\ cx.links
                                  /\ cx.nullAttach = "TypeError"}
    /\ gl = NewContext
    /\ pc = "compose"
    /\ cubeState = NullState
    /\ camera = NewCamera
    /\ frame = 0
    /\ frameCalls = <<>>
    /\ buildLog = <<>>
    /\ renderLog = <<>>
    /\ customizedSource = <<>>
    /\ shader = NULL

\* one call of createShaderWithCustomizations(gl, gl.FRAGMENT_SHADER,
\* source, customizations)
Compose ==
    /\ pc = "compose"
    /\ \E r \in {createShaderWithCustomizations(gl, ctx, "FRAGMENT_SHADER",
                                                 fragSource, customizations)} :
           /\ gl' = r.g
           /\ shader' = r.ret
           /\ pc' = IF r.threw THEN "crashed" ELSE "composed"
    /\ customizedSource' = CustomizedSource(fragSource, customizations)
    /\ UNCHANGED <<customizations, fragSource, ctx, cubeState, camera, frame,
                   frameCalls, buildLog, renderLog>>

NextCompose == Compose

SpecCompose == InitCompose /\ [][NextCompose]_vars

\* ------------------------------------------------ reading a composed text
Zones == {"uniforms", "functions", "correction"}

BeginMarker(z) ==
    CASE z = "uniforms" -> "BU" [] z = "functions" -> "BF" [] z = "correction" -> "BC"

EndMarker(z) ==
    CASE z = "uniforms" -> "EU" [] z = "functions" -> "EF" [] z = "correction" -> "EC"

FieldOf(c, z) ==
    CASE z = "uniforms" -> c.additionalUniforms
      [] z = "functions" -> c.additionalFunctions
      [] z = "correction" -> c.colorCorrectionFunction

\* a text has the zone when its begin marker is followed by its end marker
HasZone(src, z) == RegexMatch(src, BeginMarker(z), EndMarker(z)).found

\* what stands between a zone's markers, without the line breaks around it
ZoneContent(src, z) ==
    LET m == RegexMatch(src, BeginMarker(z), EndMarker(z))
    IN  Trim(SubSeq(src, m.from + 1, m.to - 1))

MarkersUnique(src) ==
    \A z \in Zones : Count(src, BeginMarker(z)) = 1 /\ Count(src, EndMarker(z)) = 1

AllGiven(c) == \A z \in Zones : FieldOf(c, z).given

\* ---------------------------------------------------------------- claims
Returned == pc \notin {"load", "compose", "crashed"}

CompileFailed == ~ctx.vsCompiles \/ ~ctx.fsCompiles

CallsOf(log, op) == {n \in DOMAIN log : log[n].op = op}

\* C1: whenever the vertex shader, the fragment shader or both fail to
\* compile, initWebGL returns null without throwing and never reaches
\* createProgram / attachShader with a null shader handle.
C1_NullWithoutLinking ==
    (pc # "load" /\ CompileFailed) =>
        /\ pc # "crashed"
        /\ cubeState.null
        /\ \A n \in CallsOf(buildLog, "attachShader") : buildLog[n].args[2] # NULL

\* C2: with all three fields given, every marker occurs exactly once in the
\* composed fragment source and each zone holds exactly the trimmed content
\* that was given for it.
C2_GivenContentExact ==
    (pc = "composed" /\ fragSource = fragmentShaderSource /\ AllGiven(customizations)) =>
        /\ MarkersUnique(customizedSource)
        /\ \A z \in Zones :
              /\ HasZone(customizedSource, z)
              /\ ZoneContent(customizedSource, z) = Trim(FieldOf(customizations, z).text)

\* C3: a zone whose field is omitted keeps the template's default content
\* whatever the other fields are, and a zone whose field is the empty string
\* becomes empty.
C3_OmittedKeepsDefault ==
    (pc = "composed" /\ fragSource = fragmentShaderSource) =>
        \A z \in Zones :
            /\ HasZone(customizedSource, z)
            /\ ~FieldOf(customizations, z).given =>
                  ZoneContent(customizedSource, z) = ZoneContent(fragmentShaderSource, z)
            /\ FieldOf(customizations, z) = Given(<<>>) =>
                  ZoneContent(customizedSource, z) = <<>>

\* C4: when the marker pair of a zone whose field is given is missing from
\* the source or occurs in it more than once, the call does not return a
\* composed shader: composition fails.
C4_BadMarkersFail ==
    \A z \in Zones :
        (/\ FieldOf(customizations, z).given
         /\ \/ Count(fragSource, BeginMarker(z)) # 1
            \/ Count(fragSource, EndMarker(z)) # 1)
        => pc # "composed"

\* C5: when initWebGL has returned, deleteShader has been requested for
\* every shader object it created.
C5_ShadersReleased ==
    Returned => gl.shaders \subseteq gl.deletedShaders

\* C6: a build that returned null made no createBuffer or bufferData call;
\* a build that returned a state created exactly three buffers, all of them
\* after its program was linked.
C6_BuffersOnlyWithProgram ==
    pc # "load" =>
        /\ cubeState.null =>
              /\ gl.buffers = {}
              /\ CallsOf(buildLog, "createBuffer") = {}
              /\ CallsOf(buildLog, "bufferData") = {}
        /\ ~cubeState.null =>
              /\ Cardinality(gl.buffers) = 3
              /\ Cardinality(CallsOf(buildLog, "createBuffer")) = 3
              /\ Cardinality(CallsOf(buildLog, "bufferData")) = 3
              /\ cubeState.program \in gl.linked \ gl.deletedPrograms
              /\ \A n \in CallsOf(buildLog, "createBuffer") \cup CallsOf(buildLog, "bufferData") :
                    \E k \in CallsOf(buildLog, "linkProgram") : k < n

\* a build that compiled both shaders, failed to link and returned null
C6_Witness ==
    /\ pc = "resize"
    /\ cubeState.null
    /\ ~CompileFailed
    /\ gl.deletedPrograms # {}
    /\ gl.buffers = {}

\* the values uploaded to a location by the calls of a log, in order
Uploads(log, location) ==
    {n \in DOMAIN log : log[n].op = "uniformMatrix4fv" /\ log[n].args[1] = location}

\* sum over k of a[i*4+k] * b[k*4+j]
RECURSIVE RowTimesColumn(_, _, _, _, _)
RowTimesColumn(a, b, i, j, k) ==
    IF k < 0 THEN 0
    ELSE a[i * 4 + k] * b[k * 4 + j] + RowTimesColumn(a, b, i, j, k - 1)

\* the model matrix: identity rotation, zero translation
IdentityModel == [n \in Cells |-> IF n \div 4 = n % 4 THEN 1 ELSE 0]

CubeFrame == frame' # frame /\ ~cubeState.null

LastBefore(log, op, d) ==
    LET before == {n \in CallsOf(log, op) : n < d}
    IN  IF before = {} THEN 0 ELSE CHOOSE n \in before : \A m \in before : m <= n

LastBindBefore(log, target, d) ==
    LET before == {n \in CallsOf(log, "bindBuffer") : n < d /\ log[n].args[1] = target}
    IN  IF before = {} THEN 0 ELSE CHOOSE n \in before : \A m \in before : m <= n

\* the attribute at a location was pointed, before d, at the buffer given
AttributeReads(log, location, size, buffer, d) ==
    \E p \in CallsOf(log, "vertexAttribPointer") :
        /\ p < d
        /\ log[p].args = <<location, size, "FLOAT", FALSE, 0, 0>>
        /\ LastBindBefore(log, "ARRAY_BUFFER", p) # 0
        /\ log[LastBindBefore(log, "ARRAY_BUFFER", p)].args[2] = buffer
        /\ \E e \in CallsOf(log, "enableVertexAttribArray") :
              e < d /\ log[e].args = <<location>>

\* C8: after a successful build (in particular one with no customization
\* fields) every renderWebGLCube issues exactly one drawElements call, of
\* TRIANGLES, 36 indices, UNSIGNED_SHORT, offset 0, and before it the
\* program is in use, both attributes read their buffers, the index buffer
\* is bound and both matrices are uploaded.
C8_OneIndexedDraw ==
    (~cubeState.null /\ renderLog # <<>>) =>
        /\ Cardinality(CallsOf(renderLog, "drawElements")) = 1
        /\ \A d \in CallsOf(renderLog, "drawElements") :
              /\ renderLog[d].args = <<"TRIANGLES", 36, "UNSIGNED_SHORT", 0>>
              /\ LastBefore(renderLog, "useProgram", d) # 0
              /\ renderLog[LastBefore(renderLog, "useProgram", d)].args
                    = <<cubeState.program>>
              /\ AttributeReads(renderLog, cubeState.positionLocation, 3,
                                cubeState.positionBuffer, d)
              /\ AttributeReads(renderLog, cubeState.colorLocation, 4,
                                cubeState.colorBuffer, d)
              /\ LastBindBefore(renderLog, "ELEMENT_ARRAY_BUFFER", d) # 0
              /\ renderLog[LastBindBefore(renderLog, "ELEMENT_ARRAY_BUFFER", d)].args[2]
                    = cubeState.indexBuffer
              /\ \E n \in Uploads(renderLog, cubeState.modelViewMatrixLocation) : n < d
              /\ \E n \in Uploads(renderLog, cubeState.projectionMatrixLocation) : n < d

\* a page built without customization fields has rendered two frames
C8_Witness ==
    /\ \A z \in Zones : ~FieldOf(customizations, z).given
    /\ ~cubeState.null
    /\ frame >= 2
    /\ CallsOf(renderLog, "drawElements") # {}

Positions(calls, name) == {n \in DOMAIN calls : calls[n] = name}

\* C9: every frame calls the scene render, then the cube render exactly when
\* the build returned a state, then the splat render, and then schedules the
\* next frame; without a state the other three still happen.
C9_FrameOrder ==
    frame > 0 =>
        /\ Cardinality(Positions(frameCalls, "renderer.render")) = 1
        /\ Cardinality(Positions(frameCalls, "splatter.render")) = 1
        /\ Cardinality(Positions(frameCalls, "requestAnimationFrame")) = 1
        /\ Cardinality(Positions(frameCalls, "renderWebGLCube"))
              = IF cubeState.null THEN 0 ELSE 1
        /\ \A r \in Positions(frameCalls, "renderer.render") :
           \A s \in Positions(frameCalls, "splatter.render") :
           \A q \in Positions(frameCalls, "requestAnimationFrame") :
              /\ r < s /\ s < q
              /\ \A c \in Positions(frameCalls, "renderWebGLCube") : r < c /\ c < s

\* a page whose build returned null has rendered two frames
C9_Witness ==
    /\ cubeState.null
    /\ frame >= 2
    /\ Positions(frameCalls, "splatter.render") # {}

\* the GPU objects of the context and the contents of its buffers
GpuObjects(g) ==
    <<g.shaders, g.deletedShaders, g.programs, g.deletedPrograms, g.linked,
      g.buffers, g.data>>

RenderOps ==
    {"useProgram", "enable", "depthFunc", "bindBuffer", "enableVertexAttribArray",
     "vertexAttribPointer", "uniformMatrix4fv", "drawElements"}

ResizeOps == {"renderer.setSize", "viewport"}

\* C10: after a successful build, a frame or a resize creates, deletes and
\* uploads nothing: the GPU objects, the buffer contents and the state
\* record stay as they are; render only binds, sets capabilities, writes
\* uniforms and draws, and resize only sets the viewport and the camera's
\* aspect and projection.
C10_NoReallocation ==
    [][(~cubeState.null /\ pc # "load") =>
          /\ GpuObjects(gl') = GpuObjects(gl)
          /\ cubeState' = cubeState
          /\ frame' # frame =>
                \A n \in DOMAIN renderLog' : renderLog'[n].op \in RenderOps
          /\ (frame' = frame /\ gl' # gl) =>
                /\ \A n \in DOMAIN gl'.log : gl'.log[n].op \in ResizeOps
                /\ camera'.matrixWorldInverse = camera.matrixWorldInverse]_vars

\* a built cube has been drawn twice and the window resized after that
C10_Witness ==
    /\ ~cubeState.null
    /\ frame >= 2
    /\ CallsOf(gl.log, "viewport") # {}
    /\ Cardinality(gl.buffers) = 3

\* ------------------------------------------------------- vertex fetching
\* the typed array held by a buffer object
BufferContent(g, buffer) ==
    LET n == CHOOSE k \in DOMAIN g.data : g.data[k].buffer = buffer
    IN  g.data[n].content

\* the buffer and component count an attribute was pointed at by the calls
\* of a log: the array buffer bound when vertexAttribPointer was called
AttributeSource(log, location) ==
    LET ps == {n \in CallsOf(log, "vertexAttribPointer") : log[n].args[1] = location}
        q == CHOOSE n \in ps : \A m \in ps : m <= n
    IN  [buffer |-> log[LastBindBefore(log, "ARRAY_BUFFER", q)].args[2],
         size |-> log[q].args[2]]

\* what the attribute at a location reads for element index v: `size`
\* consecutive floats starting at v * size (stride 0, offset 0)
FetchAttribute(g, log, location, v) ==
    LET src == AttributeSource(log, location)
        elems == BufferContent(g, src.buffer).elems
    IN  [c \in 1..src.size |-> elems[v * src.size + c]]

\* the element indices drawElements reads: `count` entries of the bound
\* index buffer from offset 0
DrawnIndices(g, log) ==
    LET d == CHOOSE n \in CallsOf(log, "drawElements") : TRUE
        buffer == log[LastBindBefore(log, "ELEMENT_ARRAY_BUFFER", d)].args[2]
    IN  SubSeq(BufferContent(g, buffer).elems, 1, log[d].args[2])

\* the six colours of the colour table, one per block of four entries
TableColours == {[c \in 1..4 |-> colors[16 * f + c]] : f \in 0..5}

Faces == 0..5

\* the colours fetched by the six element indices of a face (two triangles)
FaceColours(g, log, state, f) ==
    {FetchAttribute(g, log, state.colorLocation, DrawnIndices(g, log)[6 * f + n]) :
        n \in 1..6}

\* C11: as renderWebGLCube binds the buffers, every face of the cube (each
\* pair of consecutive triangles of the index list) fetches one single RGBA
\* colour for all of its vertices, and the six faces have the six distinct
\* colours of the colour table.
C11_FlatFaceColours ==
    (~cubeState.null /\ renderLog # <<>>) =>
        /\ \A f \in Faces : Cardinality(FaceColours(gl, renderLog, cubeState, f)) = 1
        /\ UNION {FaceColours(gl, renderLog, cubeState, f) : f \in Faces} = TableColours
        /\ \A f1, f2 \in Faces :
              f1 # f2 => FaceColours(gl, renderLog, cubeState, f1)
                            # FaceColours(gl, renderLog, cubeState, f2)
====
